---- MODULE Spec2Model ----
(***************************************************************************)
(* Hospital queueing network: the discrete-event run of run_once           *)
(* (sim_engine.py) over four QueueNode stations (queue_node.py), with the  *)
(* per-station time-weighted accumulators and the Metrics finalisation     *)
(* (metrics.py).  Virtual time is an integer number of ticks.  The event   *)
(* list is ordered by (time, urgent first, insertion order), as the        *)
(* environment the stations run on orders it.                              *)
(***************************************************************************)
EXTENDS Integers, Sequences, FiniteSets, TLC

\* ---------------------------------------------------------------- bounds
MaxPatients == 3      \* entities the arrival source creates in one run
MaxDelay    == 1      \* largest inter-arrival gap / service duration drawn
MaxServers  == 2      \* largest configured number of servers
MaxWarmup   == 1      \* largest warmup_time
MaxRun      == 2      \* largest run_time
MaxSync     == 2      \* largest clock / last_event_time of a lone synchronization

NoTime == -1          \* a timestamp the ledger has not recorded (None)

Stations == {"registration", "doctor", "lab", "pharmacy"}
Patients == 1..MaxPatients
Delays   == 0..MaxDelay

\* configured service rates: 0 stands for a rate <= 0, 1 for a rate > 0
ServiceRates == {0, 1}

VARIABLES
    phase,          \* position of run_once / run_experiment
    now,            \* env.now
    eventq,         \* pending events of the environment, in firing order
    warmup_time,    \* run_once argument
    run_time,       \* run_once argument
    nodes,          \* name -> QueueNode fields and its resource
    arrival,        \* patient -> station -> recorded arrival time
    service_start,  \* patient -> station -> recorded service start
    service_end,    \* patient -> station -> recorded service end
    arrival_order,  \* station -> patients in the order record_arrival ran
    start_order,    \* station -> patients in the order record_service_start ran
    at,             \* patient -> station whose serve() it is inside
    created         \* number of patients the arrival source has created

vars == <<phase, now, eventq, warmup_time, run_time, nodes, arrival,
          service_start, service_end, arrival_order, start_order, at, created>>

\* ------------------------------------------------------------ event list
Event(t, u, k, p, s) ==
    [time |-> t, urgent |-> u, kind |-> k, p |-> p, s |-> s]

\* a fires before b when both are pending (insertion order breaks ties)
Before(a, b) ==
    \/ a.time < b.time
    \/ a.time = b.time /\ a.urgent /\ ~b.urgent

Schedule(q, e) ==
    LET k == Cardinality({i \in 1..Len(q) : ~Before(e, q[i])})
    IN  SubSeq(q, 1, k) \o <<e>> \o SubSeq(q, k + 1, Len(q))

\* ------------------------------------------------------------- QueueNode
QueueNode(service_rate, servers) ==
    [ service_rate       |-> service_rate,
      servers            |-> servers,
      users              |-> {},
      queue              |-> <<>>,
      last_event_time    |-> 0,
      queue_area         |-> 0,
      busy_area          |-> 0,
      system_area        |-> 0,
      current_in_service |-> 0,
      completed_jobs     |-> 0 ]

update_areas(n, t) ==
    LET d     == t - n.last_event_time
        delta == IF d < 0 THEN 0 ELSE d
        q_len == Len(n.queue)
    IN  [n EXCEPT !.queue_area      = @ + q_len * delta,
                  !.busy_area       = @ + n.current_in_service * delta,
                  !.system_area     = @ + (q_len + n.current_in_service) * delta,
                  !.last_event_time = t]

\* faulty variant: the free unit goes to the last entity of the wait line
trigger_put_lifo(n) ==
    IF n.queue # <<>> /\ Cardinality(n.users) < n.servers
    THEN [node |-> [n EXCEPT !.users = @ \cup {n.queue[Len(n.queue)]},
                             !.queue = SubSeq(@, 1, Len(@) - 1)],
          next |-> n.queue[Len(n.queue)]]
    ELSE [node |-> n, next |-> 0]

\* the resource hands a free unit to the head of its wait line, one per call
trigger_put(n) ==
    IF n.queue # <<>> /\ Cardinality(n.users) < n.servers
    THEN [node |-> [n EXCEPT !.users = @ \cup {Head(n.queue)},
                             !.queue = Tail(@)],
          next |-> Head(n.queue)]
    ELSE [node |-> n, next |-> 0]

\* resource.request(): joins the wait line, granted at once when a unit is free
request(n, p) == trigger_put([n EXCEPT !.queue = Append(@, p)])

\* faulty variant: the unit is never given back
release_leak(n, p) == n

\* leaving the with-block: the unit is freed at once; the wait line is
\* offered it when the release event fires, later at the same instant
release(n, p) == [n EXCEPT !.users = @ \ {p}]

\* faulty variant: the areas are updated after the request has joined the wait line
serve_arrive_late(n, p, t) ==
    LET r == request(n, p)
    IN  [node |-> update_areas(r.node, t), next |-> r.next]

\* serve(), up to `yield req`
serve_arrive(n, p, t) == request(update_areas(n, t), p)

\* serve(), from the grant to the service timeout
serve_start(n, t) ==
    LET n1 == update_areas(n, t)
        n2 == [n1 EXCEPT !.current_in_service = @ + 1]
    IN  update_areas(n2, t)

\* faulty variant: the service end does not decrement the occupied count
serve_end_nodecrement(n, p, t) ==
    LET n1 == [n EXCEPT !.completed_jobs = @ + 1]
    IN  release(update_areas(n1, t), p)

\* faulty variant: the service end does not count the job
serve_end_nocount(n, p, t) ==
    LET n1 == [n EXCEPT !.current_in_service = @ - 1]
    IN  release(update_areas(n1, t), p)

\* serve(), from the service timeout to the end of the with-block
serve_end(n, p, t) ==
    LET n1 == [n EXCEPT !.current_in_service = @ - 1,
                        !.completed_jobs     = @ + 1]
    IN  release(update_areas(n1, t), p)

\* faulty variant: the drawn duration may be negative
sample_service_time_signed(n) == (0 - 1)..MaxDelay

\* _sample_service_time: 0 for a rate <= 0, else an exponential draw (>= 0)
sample_service_time(n) ==
    IF n.service_rate <= 0 THEN {0} ELSE Delays

\* faulty variant: the tail interval is not added to busy_area
finalize_notail(n, sim_end_time) ==
    IF sim_end_time > n.last_event_time
    THEN LET delta == sim_end_time - n.last_event_time
             q_len == Len(n.queue)
         IN  [n EXCEPT !.queue_area      = @ + q_len * delta,
                       !.last_event_time = sim_end_time]
    ELSE n

\* faulty variant: the tail interval counts every server as busy
finalize_allbusy(n, sim_end_time) ==
    IF sim_end_time > n.last_event_time
    THEN LET delta == sim_end_time - n.last_event_time
             q_len == Len(n.queue)
         IN  [n EXCEPT !.queue_area      = @ + q_len * delta,
                       !.busy_area       = @ + n.servers * delta,
                       !.last_event_time = sim_end_time]
    ELSE n

\* faulty variant: the tail interval is added and last_event_time is left
\* where it was
finalize_nostamp(n, sim_end_time) ==
    IF sim_end_time > n.last_event_time
    THEN LET delta == sim_end_time - n.last_event_time
             q_len == Len(n.queue)
         IN  [n EXCEPT !.queue_area = @ + q_len * delta,
                       !.busy_area  = @ + n.current_in_service * delta]
    ELSE n

\* finalize: the tail interval up to sim_end_time
finalize(n, sim_end_time) ==
    IF sim_end_time > n.last_event_time
    THEN LET delta == sim_end_time - n.last_event_time
             q_len == Len(n.queue)
         IN  [n EXCEPT !.queue_area      = @ + q_len * delta,
                       !.busy_area       = @ + n.current_in_service * delta,
                       !.last_event_time = sim_end_time]
    ELSE n

finalize_nodes(ns, sim_end_time) ==
    [s \in Stations |-> finalize(ns[s], sim_end_time)]

\* ---------------------------------------------------------------- Metrics
effective_time == IF run_time > 0 THEN run_time ELSE 0

effective_T == IF effective_time > 0 THEN effective_time ELSE 1

\* exact quotient num / den
Ratio(num, den) == [num |-> num, den |-> den]

avg_queue_length(n, T) ==
    IF T <= 0 THEN Ratio(0, 1) ELSE Ratio(n.queue_area, T)

avg_in_service(n, T) ==
    IF T <= 0 THEN Ratio(0, 1) ELSE Ratio(n.busy_area, T)

avg_in_system(n, T) ==
    IF T <= 0 THEN Ratio(0, 1) ELSE Ratio(n.system_area, T)

utilization(n, T) ==
    LET denom == n.servers * T
    IN  IF denom <= 0 THEN Ratio(0, 1) ELSE Ratio(n.busy_area, denom)

\* compute_node_metrics: the time averages reported for station s
compute_node_metrics(s) ==
    [ avg_queue_length_timeavg |-> avg_queue_length(nodes[s], effective_T),
      avg_in_service_timeavg   |-> avg_in_service(nodes[s], effective_T),
      avg_in_system            |-> avg_in_system(nodes[s], effective_T),
      utilization              |-> utilization(nodes[s], effective_T),
      num_completed_jobs       |-> nodes[s].completed_jobs ]

\* ------------------------------------------------------- run_once, chain
sim_end_time == warmup_time + run_time

\* route_after_doctor: lab then pharmacy, or pharmacy directly
route_after_doctor(s) ==
    CASE s = "doctor"   -> {"lab", "pharmacy"}
      [] s = "lab"      -> {"pharmacy"}
      [] s = "pharmacy" -> {"done"}

\* faulty variant: the wrapper chains doctor before registration
wrapper_swapped(s) ==
    CASE s = "none"         -> {"doctor"}
      [] s = "doctor"       -> {"registration"}
      [] s = "registration" -> route_after_doctor("doctor")
      [] OTHER              -> route_after_doctor(s)

\* faulty variant: the wrapper hands the patient to the router right after
\* registration
wrapper_skips_doctor(s) ==
    CASE s = "none"         -> {"registration"}
      [] s = "registration" -> route_after_doctor("doctor")
      [] OTHER              -> route_after_doctor(s)

\* registration_serve_wrapper: registration, then doctor, then the router;
\* the stations a patient that has finished s may enter next
registration_serve_wrapper(s) ==
    CASE s = "none"         -> {"registration"}
      [] s = "registration" -> {"doctor"}
      [] OTHER              -> route_after_doctor(s)

\* the resource of a station refuses a capacity that is not positive
resource_rejects(servers) == servers <= 0

Init ==
    /\ now = 0
    /\ eventq = <<Event(0, TRUE, "gen_start", 0, "none")>>
    /\ warmup_time \in 0..MaxWarmup
    /\ run_time \in 0..MaxRun
    /\ \E k \in 0..MaxServers : \E mu \in ServiceRates :
           /\ nodes = [s \in Stations |-> QueueNode(mu, k)]
           /\ phase = IF resource_rejects(k) THEN "config_error" ELSE "created"
    /\ arrival = [p \in Patients |-> [s \in Stations |-> NoTime]]
    /\ service_start = [p \in Patients |-> [s \in Stations |-> NoTime]]
    /\ service_end = [p \in Patients |-> [s \in Stations |-> NoTime]]
    /\ arrival_order = [s \in Stations |-> <<>>]
    /\ start_order = [s \in Stations |-> <<>>]
    /\ at = [p \in Patients |-> "none"]
    /\ created = 0

\* -------------------------------------------------------------- actions
head == Head(eventq)

\* faulty variant: the arrival synchronizes every station, as if the
\* accumulators were shared between the nodes
Enter_allnodes(p, s, t, q, ns) ==
    LET r == serve_arrive(ns[s], p, t)
    IN  /\ nodes' = [x \in Stations |->
                        IF x = s THEN r.node ELSE update_areas(ns[x], t)]
        /\ eventq' = IF r.next # 0
                        THEN Schedule(q, Event(t, FALSE, "granted", r.next, s))
                        ELSE q
        /\ arrival' = [arrival EXCEPT ![p][s] = t]
        /\ arrival_order' = [arrival_order EXCEPT ![s] = Append(@, p)]
        /\ at' = [at EXCEPT ![p] = s]

\* the patient p enters serve() of station s at time t
\* (q is the event list the step has built so far)
Enter(p, s, t, q, ns) ==
    LET r == serve_arrive(ns[s], p, t)
    IN  /\ nodes' = [ns EXCEPT ![s] = r.node]
        /\ eventq' = IF r.next # 0
                        THEN Schedule(q, Event(t, FALSE, "granted", r.next, s))
                        ELSE q
        /\ arrival' = [arrival EXCEPT ![p][s] = t]
        /\ arrival_order' = [arrival_order EXCEPT ![s] = Append(@, p)]
        /\ at' = [at EXCEPT ![p] = s]

\* env.run(until=sim_end_time): refuses a horizon that is not in the future
EnvRun ==
    /\ phase = "created"
    /\ IF sim_end_time <= now
          THEN /\ phase' = "error"
               /\ UNCHANGED eventq
          ELSE /\ phase' = "running"
               /\ eventq' = Schedule(eventq, Event(sim_end_time, TRUE, "until", 0, "none"))
    /\ UNCHANGED <<now, warmup_time, run_time, nodes, arrival, service_start,
                   service_end, arrival_order, start_order, at, created>>

\* arrival_generator starts: draws the first gap
GeneratorStart ==
    /\ phase = "running"
    /\ head.kind = "gen_start"
    /\ now' = head.time
    /\ \E gap \in Delays :
           eventq' = Schedule(Tail(eventq),
                              Event(head.time + gap, FALSE, "gen_timer", 0, "none"))
    /\ UNCHANGED <<phase, warmup_time, run_time, nodes, arrival, service_start,
                   service_end, arrival_order, start_order, at, created>>

\* arrival_generator: a gap has elapsed; a patient is created and its
\* process started, and the next gap is drawn
Arrive ==
    /\ phase = "running"
    /\ head.kind = "gen_timer"
    /\ now' = head.time
    /\ created' = created + 1
    /\ LET q1 == Schedule(Tail(eventq),
                          Event(head.time, TRUE, "init", created + 1,
                                "none"))
       IN  IF created + 1 < MaxPatients
           THEN \E gap \in Delays :
                    eventq' = Schedule(q1, Event(head.time + gap, FALSE,
                                                 "gen_timer", 0, "none"))
           ELSE eventq' = q1
    /\ UNCHANGED <<phase, warmup_time, run_time, nodes, arrival, service_start,
                   service_end, arrival_order, start_order, at>>

\* the patient's process starts: the first station of the wrapper
ProcessInit ==
    /\ phase = "running"
    /\ head.kind = "init"
    /\ now' = head.time
    /\ \E s \in registration_serve_wrapper("none") :
           Enter(head.p, s, head.time, Tail(eventq), nodes)
    /\ UNCHANGED <<phase, warmup_time, run_time, service_start, service_end,
                   start_order, created>>

\* the request is granted: service starts and its duration is drawn
ServiceStart ==
    /\ phase = "running"
    /\ head.kind = "granted"
    /\ now' = head.time
    /\ LET p == head.p
           s == at[p]
       IN  /\ nodes' = [nodes EXCEPT ![s] = serve_start(@, head.time)]
           /\ service_start' = [service_start EXCEPT ![p][s] = head.time]
           /\ start_order' = [start_order EXCEPT ![s] = Append(@, p)]
           /\ \E service_time \in sample_service_time(nodes[s]) :
                  eventq' = Schedule(Tail(eventq),
                                     Event(head.time + service_time, FALSE,
                                           "timeout", p, s))
    /\ UNCHANGED <<phase, warmup_time, run_time, arrival, service_end,
                   arrival_order, at, created>>

\* the service timeout fires: service ends, the unit is released, and the
\* patient goes on to the next station of its chain or leaves
ServiceEnd ==
    /\ phase = "running"
    /\ head.kind = "timeout"
    /\ now' = head.time
    /\ LET p  == head.p
           s  == at[p]
           t  == head.time
           ns == [nodes EXCEPT ![s] = serve_end(@, p, t)]
           q  == Schedule(Tail(eventq), Event(t, FALSE, "release", 0, s))
       IN  /\ service_end' = [service_end EXCEPT ![p][s] = t]
           /\ \E s2 \in registration_serve_wrapper(s) :
                  IF s2 = "done"
                  THEN /\ nodes' = ns
                       /\ eventq' = q
                       /\ at' = [at EXCEPT ![p] = "done"]
                       /\ UNCHANGED <<arrival, arrival_order>>
                  ELSE Enter(p, s2, t, q, ns)
    /\ UNCHANGED <<phase, warmup_time, run_time, service_start, start_order,
                   created>>

\* faulty variant: the release event is consumed and the freed unit is not
\* offered to the wait line
ReleaseDropped ==
    /\ phase = "running"
    /\ head.kind = "release"
    /\ now' = head.time
    /\ eventq' = Tail(eventq)
    /\ UNCHANGED <<phase, warmup_time, run_time, nodes, arrival, service_start,
                   service_end, arrival_order, start_order, at, created>>

\* the release event fires: the resource offers the freed unit to the head
\* of the wait line, whose request then succeeds
ReleaseFired ==
    /\ phase = "running"
    /\ head.kind = "release"
    /\ now' = head.time
    /\ LET r == trigger_put(nodes[head.s])
       IN  /\ nodes' = [nodes EXCEPT ![head.s] = r.node]
           /\ eventq' = IF r.next # 0
                         THEN Schedule(Tail(eventq),
                                       Event(head.time, FALSE, "granted",
                                             r.next, head.s))
                         ELSE Tail(eventq)
    /\ UNCHANGED <<phase, warmup_time, run_time, arrival, service_start,
                   service_end, arrival_order, start_order, at, created>>

\* the until event fires first at the horizon: env.run returns
StopSimulation ==
    /\ phase = "running"
    /\ head.kind = "until"
    /\ now' = head.time
    /\ eventq' = Tail(eventq)
    /\ phase' = "stopped"
    /\ UNCHANGED <<warmup_time, run_time, nodes, arrival, service_start,
                   service_end, arrival_order, start_order, at, created>>

\* run_once: metrics.finalize_nodes(sim_end_time)
FinalizeNodes ==
    /\ phase = "stopped"
    /\ phase' = "finalized"
    /\ nodes' = finalize_nodes(nodes, sim_end_time)
    /\ UNCHANGED <<now, eventq, warmup_time, run_time, arrival, service_start,
                   service_end, arrival_order, start_order, at, created>>

\* run_experiment: metrics.finalize_nodes(sim_end) once more after run_once
FinalizeAgain ==
    /\ phase = "finalized"
    /\ phase' = "refinalized"
    /\ nodes' = finalize_nodes(nodes, sim_end_time)
    /\ UNCHANGED <<now, eventq, warmup_time, run_time, arrival, service_start,
                   service_end, arrival_order, start_order, at, created>>

Next ==
    \/ EnvRun
    \/ GeneratorStart
    \/ Arrive
    \/ ProcessInit
    \/ ServiceStart
    \/ ServiceEnd
    \/ ReleaseFired
    \/ StopSimulation
    \/ FinalizeNodes
    \/ FinalizeAgain

Spec == Init /\ [][Next]_vars

\* ------------------------------------- synchronization called on its own
\* _update_areas and finalize as functions of the node and the time they
\* observe: the node is mid-life (some entities in service, some waiting,
\* last_event_time already stamped) and the caller's clock or horizon is any
\* time of the bounded range, earlier ones included
SyncInit ==
    /\ phase \in {"update_call", "finalize_call"}
    /\ now \in 0..MaxSync
    /\ eventq = <<>>
    /\ warmup_time \in 0..MaxWarmup
    /\ run_time \in 0..MaxRun
    /\ \E k \in 1..MaxServers : \E c \in 0..k : \E l \in 0..MaxSync :
       \E q \in {<<>>, <<MaxPatients>>} :
           nodes = [s \in Stations |->
                       [QueueNode(1, k) EXCEPT !.users = 1..c,
                                               !.current_in_service = c,
                                               !.queue = q,
                                               !.last_event_time = l]]
    /\ arrival = [p \in Patients |-> [s \in Stations |-> NoTime]]
    /\ service_start = [p \in Patients |-> [s \in Stations |-> NoTime]]
    /\ service_end = [p \in Patients |-> [s \in Stations |-> NoTime]]
    /\ arrival_order = [s \in Stations |-> <<>>]
    /\ start_order = [s \in Stations |-> <<>>]
    /\ at = [p \in Patients |-> "none"]
    /\ created = 0

\* node._update_areas() with env.now = now: it returns, whatever the elapsed
\* time is
SyncUpdate ==
    /\ phase = "update_call"
    /\ phase' = "returned"
    /\ \E s \in Stations : nodes' = [nodes EXCEPT ![s] = update_areas(@, now)]
    /\ UNCHANGED <<now, eventq, warmup_time, run_time, arrival, service_start,
                   service_end, arrival_order, start_order, at, created>>

\* metrics.finalize_nodes(sim_end_time): it returns, whatever finalize did
SyncFinalize ==
    /\ phase = "finalize_call"
    /\ phase' = "returned"
    /\ nodes' = finalize_nodes(nodes, sim_end_time)
    /\ UNCHANGED <<now, eventq, warmup_time, run_time, arrival, service_start,
                   service_end, arrival_order, start_order, at, created>>

SyncNext == SyncUpdate \/ SyncFinalize

SyncSpec == SyncInit /\ [][SyncNext]_vars

\* ------------------------------------------------- ledger-derived terms
RECURSIVE SumTo(_, _)
SumTo(f, n) == IF n = 0 THEN 0 ELSE f[n] + SumTo(f, n - 1)

\* ticks of [0, t] that p spent in service at s (start recorded, end not yet)
InServiceTicks(p, s, t) ==
    LET b == service_start[p][s]
        e == service_end[p][s]
    IN  IF b = NoTime \/ b > t THEN 0
        ELSE (IF e # NoTime /\ e < t THEN e ELSE t) - b

\* ticks of [0, t] that p spent in the wait line of s (arrived, not yet started)
WaitingTicks(p, s, t) ==
    LET a == arrival[p][s]
        b == service_start[p][s]
    IN  IF a = NoTime \/ a > t THEN 0
        ELSE (IF b # NoTime /\ b < t THEN b ELSE t) - a

\* time integral over [0, t] of the number in service / waiting at s
BusyIntegral(s, t) ==
    SumTo([p \in Patients |-> InServiceTicks(p, s, t)], MaxPatients)

QueueIntegral(s, t) ==
    SumTo([p \in Patients |-> WaitingTicks(p, s, t)], MaxPatients)

Ended(s) == {p \in Patients : service_end[p][s] # NoTime}

IsPrefix(a, b) == Len(a) <= Len(b) /\ SubSeq(b, 1, Len(a)) = a

\* ------------------------------------------------------------------ claims

\* C1: at every accumulator synchronization of every station, busy_area is
\* the time integral over [0, last_event_time] of the number of entities in
\* service there (service start recorded, service end not yet recorded).
C1_BusyAreaIsIntegral ==
    \A s \in Stations :
        nodes[s].busy_area = BusyIntegral(s, nodes[s].last_event_time)

\* C2: for every station, after every accumulator synchronization, the final
\* finalize included, system_area = queue_area + busy_area.
C2_SystemAreaIsSum ==
    \A s \in Stations :
        nodes[s].system_area = nodes[s].queue_area + nodes[s].busy_area

\* C3: with warmup_time >= 0 and run_time > 0, after finalize every station
\* has busy_area <= servers * T, T the duration compute_node_metrics divides
\* by, so that the reported utilization is at most 1.
C3_UtilizationAtMostOne ==
    (phase = "finalized" /\ run_time > 0) =>
        \A s \in Stations :
            /\ nodes[s].busy_area >= 0
            /\ nodes[s].busy_area <= nodes[s].servers * effective_T

\* C4: at every accumulator synchronization of every station, queue_area is
\* the time integral over [0, last_event_time] of the length of the wait line
\* (entities that have arrived and have not yet been granted a server).
C4_QueueAreaIsIntegral ==
    \A s \in Stations :
        nodes[s].queue_area = QueueIntegral(s, nodes[s].last_event_time)

\* C4 witness: some entity has waited a positive time and it was integrated.
C4_Witness ==
    \E s \in Stations : \E p \in Patients :
        /\ service_start[p][s] # NoTime
        /\ service_start[p][s] > arrival[p][s]
        /\ nodes[s].queue_area > 0

\* C5: in every reachable state, for every station, 0 <= current_in_service
\* <= servers and the wait line has length >= 0.
C5_OccupiedWithinCapacity ==
    \A s \in Stations :
        /\ 0 <= nodes[s].current_in_service
        /\ nodes[s].current_in_service <= nodes[s].servers
        /\ Len(nodes[s].queue) >= 0

\* C5 witness: a station with every server occupied and an entity waiting.
C5_Witness ==
    \E s \in Stations :
        /\ nodes[s].current_in_service = nodes[s].servers
        /\ Len(nodes[s].queue) > 0

\* C6: at every station the entities start service in the order in which
\* they arrived (requested capacity): the service starts so far are, in
\* order, the first arrivals; no waiting entity is overtaken.
C6_FifoGrant ==
    \A s \in Stations : IsPrefix(start_order[s], arrival_order[s])

\* C6 witness: two entities waited in the same wait line at the same time
\* and both have since started service.
C6_Witness ==
    \E s \in Stations : \E x, y \in Patients :
        /\ x # y
        /\ service_start[x][s] # NoTime /\ service_start[y][s] # NoTime
        /\ arrival[x][s] < service_start[x][s]
        /\ arrival[y][s] < service_start[x][s]
        /\ service_start[x][s] <= service_start[y][s]
        /\ nodes[s].servers = 1

\* the order in which the chain of run_once visits the stations
Precedes(s1, s2) ==
    \/ s1 = "registration" /\ s2 \in {"doctor", "lab", "pharmacy"}
    \/ s1 = "doctor" /\ s2 \in {"lab", "pharmacy"}
    \/ s1 = "lab" /\ s2 = "pharmacy"

\* C7: for every entity and every station it visits, arrival <= service start
\* <= service end, and the arrival at a later station of its chain is not
\* earlier than the service end at an earlier one.
C7_TimestampsMonotone ==
    \A p \in Patients :
        /\ \A s \in Stations :
            /\ service_start[p][s] # NoTime =>
                   /\ arrival[p][s] # NoTime
                   /\ arrival[p][s] <= service_start[p][s]
            /\ service_end[p][s] # NoTime =>
                   /\ service_start[p][s] # NoTime
                   /\ service_start[p][s] <= service_end[p][s]
        /\ \A s1, s2 \in Stations :
               (Precedes(s1, s2) /\ arrival[p][s1] # NoTime
                                 /\ arrival[p][s2] # NoTime) =>
                   /\ service_end[p][s1] # NoTime
                   /\ service_end[p][s1] <= arrival[p][s2]

\* C7 witness: an entity that waited, was served for a positive time and
\* went on to the next station.
C7_Witness ==
    \E p \in Patients :
        /\ arrival[p]["registration"] < service_start[p]["registration"]
        /\ service_start[p]["registration"] < service_end[p]["registration"]
        /\ arrival[p]["doctor"] # NoTime
        /\ service_end[p]["doctor"] # NoTime

\* C8: in every reachable state, for every station, completed_jobs is the
\* number of entities whose service end at that station has been recorded.
C8_CompletedCountsEnds ==
    \A s \in Stations : nodes[s].completed_jobs = Cardinality(Ended(s))

\* C8 witness: a station that has completed the service of two entities.
C8_Witness ==
    \E s \in Stations : Cardinality(Ended(s)) >= 2

\* C9: finalize_nodes(horizon) after the run leaves every station with
\* last_event_time = horizon, and queue_area and busy_area each grown by
\* (count at the horizon) * (horizon - previous last_event_time).
C9_FinalizeTail ==
    [][(phase = "stopped" /\ phase' = "finalized") =>
         \A s \in Stations :
            /\ nodes'[s].last_event_time = sim_end_time
            /\ nodes'[s].queue_area = nodes[s].queue_area
                 + Len(nodes[s].queue) * (sim_end_time - nodes[s].last_event_time)
            /\ nodes'[s].busy_area = nodes[s].busy_area
                 + nodes[s].current_in_service
                     * (sim_end_time - nodes[s].last_event_time)]_vars

\* C9 witness: finalized with entities waiting and in service at the horizon,
\* the tail interval being of positive length.
C9_Witness ==
    /\ phase = "finalized"
    /\ \E s \in Stations :
        /\ Len(nodes[s].queue) > 0
        /\ nodes[s].current_in_service > 0
        /\ \A p \in Patients : arrival[p][s] < sim_end_time
        /\ nodes[s].busy_area > 0
        /\ nodes[s].queue_area > 0

\* C10: in every reachable state completed_jobs(doctor) <=
\* completed_jobs(registration), and completed_jobs(lab) and
\* completed_jobs(pharmacy) are each <= completed_jobs(doctor).
C10_DownstreamNeverAhead ==
    /\ nodes["doctor"].completed_jobs <= nodes["registration"].completed_jobs
    /\ nodes["lab"].completed_jobs <= nodes["doctor"].completed_jobs
    /\ nodes["pharmacy"].completed_jobs <= nodes["doctor"].completed_jobs

\* C10 witness: entities have completed at lab and at pharmacy.
C10_Witness ==
    /\ nodes["lab"].completed_jobs >= 1
    /\ nodes["pharmacy"].completed_jobs >= 1

\* ------------------------------------------------ C11: grants and waits
Pending(kind, p, s) ==
    \E i \in 1..Len(eventq) :
        eventq[i].kind = kind /\ eventq[i].p = p /\ eventq[i].s = s

InQueue(p, s) ==
    \E i \in 1..Len(nodes[s].queue) : nodes[s].queue[i] = p

NoDuplicates(q) ==
    \A i, j \in 1..Len(q) : q[i] = q[j] => i = j

\* the run was cut off at the horizon while every server of s was held by
\* an entity whose service timeout had not fired yet
CutOffByHorizon(s) ==
    /\ phase \in {"stopped", "finalized", "refinalized"}
    /\ Cardinality(nodes[s].users) = nodes[s].servers
    /\ \A u \in nodes[s].users : Pending("timeout", u, s)

\* C11: an entity that suspends in a wait line is granted exactly once: it
\* never starts service twice for the same visit, no second grant is pending
\* for an entity that has started, and when the run has ended every entity
\* still in a wait line is there only because the horizon cut the run off
\* while all servers of the station were still serving.
C11_WaitersAreServed ==
    \A s \in Stations :
        /\ NoDuplicates(start_order[s])
        /\ \A p \in Patients :
            /\ Pending("granted", p, s) => service_start[p][s] = NoTime
            /\ (InQueue(p, s) /\ phase # "running") => CutOffByHorizon(s)

\* C11 witness: the run has ended; an entity that was suspended in a wait
\* line has started service after a positive wait, another is still waiting.
C11_Witness ==
    /\ phase = "stopped"
    /\ \E p, q \in Patients : \E s \in Stations :
        /\ service_start[p][s] # NoTime
        /\ arrival[p][s] < service_start[p][s]
        /\ InQueue(q, s)


\* ------------------------------------------------------------------- C13
\* C13: a synchronization (_update_areas) or a finalize that observes a time
\* earlier than the station's last_event_time aborts the run: the call does
\* not return, and no accumulator is touched.
NegativeElapsed(t) == \E s \in Stations : t < nodes[s].last_event_time

C14_BadConfigRejected ==
    \A s \in Stations :
        (nodes[s].servers < 1 \/ nodes[s].service_rate <= 0)
            => (phase = "config_error" /\ start_order[s] = <<>>)

\* ------------------------------------------------------------------- C15
\* C15: when the effective duration is <= 0 (run_time = 0), the
\* avg_queue_length, avg_in_service, avg_in_system and utilization that
\* compute_node_metrics reports are all 0.
Finalized == phase \in {"finalized", "refinalized"}

C15_ZeroDurationReportsZero ==
    (Finalized /\ effective_time <= 0) =>
        \A s \in Stations :
            /\ compute_node_metrics(s).avg_queue_length_timeavg.num = 0
            /\ compute_node_metrics(s).avg_in_service_timeavg.num = 0
            /\ compute_node_metrics(s).avg_in_system.num = 0
            /\ compute_node_metrics(s).utilization.num = 0

\* ------------------------------------------------------------------- C16
\* C16: after finalize, a station at which no entity arrived has queue_area,
\* busy_area, system_area and completed_jobs all 0, and utilization 0.
C16_IdleStationIsZero ==
    Finalized =>
        \A s \in Stations :
            arrival_order[s] = <<>> =>
                /\ nodes[s].queue_area = 0
                /\ nodes[s].busy_area = 0
                /\ nodes[s].system_area = 0
                /\ nodes[s].completed_jobs = 0
                /\ compute_node_metrics(s).utilization.num = 0

C16_Witness ==
    /\ phase = "finalized"
    /\ sim_end_time > 0
    /\ arrival_order["lab"] = <<>>
    /\ nodes["registration"].busy_area > 0
    /\ nodes["doctor"].completed_jobs > 0

\* ------------------------------------------------------------------- C17
\* C17: whenever virtual time is about to advance (the next event lies in
\* the future), no station has a non-empty wait line while its
\* current_in_service is below servers: a released unit has gone to the
\* head of the wait line within the instant of the release.
TimeAdvances == phase = "running" /\ eventq # <<>> /\ head.time > now

C17_NoIdleUnitWithWaiters ==
    TimeAdvances =>
        \A s \in Stations :
            ~(nodes[s].queue # <<>> /\ nodes[s].current_in_service < nodes[s].servers)

C17_Witness ==
    /\ TimeAdvances
    /\ \E p, q \in Patients : \E s \in Stations :
        /\ p # q
        /\ service_end[q][s] # NoTime
        /\ arrival[p][s] # NoTime
        /\ arrival[p][s] < service_end[q][s]
        /\ service_start[p][s] = service_end[q][s]
        /\ service_end[q][s] = now


\* ------------------------------------------------------------------- C18
\* C18: every entity goes registration, doctor, then the routed stations:
\* its doctor arrival is recorded at the time of its registration service
\* end, it arrives at lab or pharmacy only once its doctor service end is
\* recorded (and not before that time), and it arrives at no station twice.
C18_FixedStationOrder ==
    \A p \in Patients :
        /\ arrival[p]["doctor"] # NoTime =>
               /\ service_end[p]["registration"] # NoTime
               /\ arrival[p]["doctor"] = service_end[p]["registration"]
        /\ \A s \in {"lab", "pharmacy"} :
               arrival[p][s] # NoTime =>
                   /\ service_end[p]["doctor"] # NoTime
                   /\ arrival[p][s] >= service_end[p]["doctor"]
        /\ \A s \in Stations :
               /\ NoDuplicates(arrival_order[s])
               /\ InQueue(p, s) => at[p] = s
               /\ p \in nodes[s].users => at[p] = s

C18_Witness ==
    \E p \in Patients :
        /\ service_end[p]["pharmacy"] # NoTime
        /\ arrival[p]["lab"] # NoTime
        /\ arrival[p]["registration"] < service_end[p]["pharmacy"]

\* ------------------------------------------------------------------- C19
\* C19: in every step of a run the clock does not go back, every station's
\* last_event_time does not decrease and does not exceed the clock (so the
\* elapsed time of every synchronization is >= 0), and queue_area,
\* busy_area and system_area do not decrease.
C19_ElapsedNeverNegative ==
    [][ /\ now' >= now
        /\ \A s \in Stations :
            /\ nodes[s].last_event_time <= now
            /\ nodes'[s].last_event_time >= nodes[s].last_event_time
            /\ nodes'[s].last_event_time <= now'
            /\ nodes'[s].queue_area >= nodes[s].queue_area
            /\ nodes'[s].busy_area >= nodes[s].busy_area
            /\ nodes'[s].system_area >= nodes[s].system_area ]_vars

C19_Witness ==
    /\ phase = "running"
    /\ now > 1
    /\ \E s \in Stations :
        /\ nodes[s].last_event_time = now
        /\ nodes[s].queue_area > 0
        /\ nodes[s].busy_area > 0

\* ------------------------------------------------------------------- C20
\* C20: the second finalize_nodes with the same horizon, the one
\* run_experiment makes after run_once, leaves queue_area, busy_area,
\* system_area, last_event_time and completed_jobs of every station as
\* they were.
C20_FinalizeIdempotent ==
    [][ (phase = "finalized" /\ phase' = "refinalized") =>
            \A s \in Stations :
                /\ nodes'[s].queue_area = nodes[s].queue_area
                /\ nodes'[s].busy_area = nodes[s].busy_area
                /\ nodes'[s].system_area = nodes[s].system_area
                /\ nodes'[s].last_event_time = nodes[s].last_event_time
                /\ nodes'[s].completed_jobs = nodes[s].completed_jobs ]_vars

C20_Witness ==
    /\ phase = "refinalized"
    /\ \E s \in Stations :
        /\ nodes[s].queue # <<>>
        /\ nodes[s].current_in_service > 0
        /\ nodes[s].last_event_time = sim_end_time
        /\ \A p \in Patients :
               arrival[p][s] # NoTime => arrival[p][s] < sim_end_time


\* ------------------------------------------------------------------- C21
\* C21: in every step of a run, a station whose node changes (occupied
\* count, wait line, queue_area, busy_area, system_area, last_event_time or
\* completed_jobs) is a station at which the step recorded an arrival, a
\* service start or a service end, or whose release fired: an arrival, grant
\* or service end at one station leaves every other station as it was.
EventAt(s) ==
    \/ \E p \in Patients :
        \/ arrival'[p][s] # arrival[p][s]
        \/ service_start'[p][s] # service_start[p][s]
        \/ service_end'[p][s] # service_end[p][s]
    \/ head.kind = "release" /\ head.s = s

C21_OtherStationsUntouched ==
    [][ phase = "running" =>
            \A s \in Stations : EventAt(s) \/ nodes'[s] = nodes[s] ]_vars

C21_Witness ==
    /\ phase = "running"
    /\ \E s1, s2 \in Stations :
        /\ s1 # s2
        /\ nodes[s1].last_event_time = now
        /\ \E p \in Patients : service_end[p][s1] = now
        /\ nodes[s2].last_event_time < now
        /\ nodes[s2].current_in_service > 0
        /\ nodes[s2].queue # <<>>

====
